---- MODULE Spec2Model ----
(***************************************************************************)
(* Medalyze front end (src/frontend/streamlit_app.py).                     *)
(*                                                                         *)
(* The script is re-executed top to bottom on every user event.  One      *)
(* execution is modelled as a walk of pc through the script: tab 1 (the    *)
(* upload loop, lines 53-86), tab 2 (empty-session guard 94-96,            *)
(* aggregation loop 102-133, no-data stop 135-137, stacking and rendering  *)
(* 139-158, send button 161-185).  Only st.session_state survives between  *)
(* executions; every other variable is a local of the running script.      *)
(* Network responses and widget values are the inputs, drawn with \E.      *)
(***************************************************************************)
EXTENDS Integers, Sequences, FiniteSets, TLC

VARIABLES
    session_state,         \* st.session_state: a dict, empty or with key "all_analysis_results"
    send_rendered,         \* the send button (line 161) was drawn by the latest execution
    pc,                    \* position of the running script, "idle" between executions
    outcome,               \* how the execution ended: "", "completed", "stopped", "exception"
    upload_button,         \* value of st.button("Upload & Process All Transcripts")
    send_button,           \* value of st.button("Send Heatmap to NeuralSeek for Email")
    upload_transcripts,    \* value of st.file_uploader: sequence of document names
    doc_idx,               \* position of the loop of line 57
    all_analysis_results,  \* local list of line 55
    upload_log,            \* response received for each document of the batch
    res_idx,               \* position of the loop of line 102
    all_matrices,          \* local list of line 99
    row_labels,            \* local list of line 100
    fetch_log,             \* what happened for each session result in the loop of line 102
    combined_matrix,       \* line 139, <<>> while not computed
    col_labels,            \* lines 144-146
    df_scores,             \* line 149-150, 0 or 1 element
    fig,                   \* line 154-157, 0 or 1 element
    requests_posted,       \* payloads of the requests.post calls of this execution
    notify_log,            \* what the notification agent answered to each push
    messages               \* what the execution showed: st.info/warning/error/success, exceptions

vars == <<session_state, send_rendered, pc, outcome, upload_button, send_button,
          upload_transcripts, doc_idx, all_analysis_results, upload_log, res_idx,
          all_matrices, row_labels, fetch_log, combined_matrix, col_labels,
          df_scores, fig, requests_posted, notify_log, messages>>

tab1_locals == <<upload_transcripts, doc_idx, all_analysis_results, upload_log>>
agg_locals == <<res_idx, all_matrices, row_labels, fetch_log>>
render_locals == <<combined_matrix, col_labels, df_scores, fig, notify_log>>

\* Largest number of documents selected in the file uploader.
MaxDocs == 2

----------------------------------------------------------------------------
(* Dicts, as Python uses them *)

EmptyDict == [k \in {} |-> 0]

Get(d, k, default) == IF k \in DOMAIN d THEN d[k] ELSE default

SetItem(d, k, v) == [x \in DOMAIN d \cup {k} |-> IF x = k THEN v ELSE d[x]]

\* Decimal text of a small positive integer, as an f-string prints it.
IntStr(i) ==
    CASE i = 1 -> "1" [] i = 2 -> "2" [] i = 3 -> "3" [] i = 4 -> "4"
      [] i = 5 -> "5" [] i = 6 -> "6" [] i = 7 -> "7" [] i = 8 -> "8"
      [] i = 9 -> "9"

RECURSIVE Concat(_)
Concat(seqs) == IF seqs = <<>> THEN <<>> ELSE Head(seqs) \o Concat(Tail(seqs))

RECURSIVE SumSeq(_)
SumSeq(s) == IF s = <<>> THEN 0 ELSE Head(s) + SumSeq(Tail(s))

----------------------------------------------------------------------------
(* Inputs *)

DocNames == {"call1.txt", "call2.txt"}

Selections == UNION {[1..n -> DocNames] : n \in 0..MaxDocs}

\* Scores are kept in tenths (8 stands for 0.8).
M4 == <<<<8, 6, 10, 4>>, <<5, 5, 5, 5>>>>
N4 == <<<<9, 7, 8, 10>>, <<3, 2, 1, 0>>>>
M5 == <<<<1, 2, 3, 4, 5>>>>
M3 == <<<<7, 8, 9>>>>

\* The try block raised: requests.post or raise_for_status failed, or the body
\* was not a JSON object.  Every such exception is caught by the one
\* "except Exception" of the call site, which is all the script tells apart.
Failures == {"raised"}

\* Bodies the upload agent answers with.
UploadBodies ==
    { [analysis_id |-> "a1"],
      [matrix |-> M4, file_name |-> "backend.bin"],
      [analysis_id |-> "a2", matrix |-> M5] }

UploadResponses ==
    {[status |-> f] : f \in Failures} \cup {[status |-> "ok", body |-> b] : b \in UploadBodies}

\* Bodies the analysis agent answers with; row_labels is any JSON value.
FetchBodies ==
    { [matrix |-> <<>>],
      [matrix |-> M4],
      [matrix |-> N4, row_labels |-> [type |-> "array", items |-> <<"intro", "close">>]],
      [matrix |-> M4, row_labels |-> [type |-> "array", items |-> <<"only">>]],
      [matrix |-> M4, row_labels |-> [type |-> "number"]],
      [matrix |-> M5],
      [matrix |-> M3] }

FetchResponses ==
    {[status |-> f] : f \in Failures} \cup {[status |-> "ok", body |-> b] : b \in FetchBodies}

NotifyResponses == {"ok"} \cup Failures

----------------------------------------------------------------------------
(* Pure parts of the script *)

\* ndarray.shape and ndarray.size of a rectangular list of rows
NRows(m) == Len(m)
NCols(m) == IF m = <<>> THEN 0 ELSE Len(m[1])
Size(m) == NRows(m) * NCols(m)

\* A variant that keeps a file_name the backend sent (dict.setdefault).
TagResult_KeepBackend(body, name) ==
    IF "file_name" \in DOMAIN body THEN body ELSE SetItem(body, "file_name", name)

\* line 80: result["file_name"] = doc.name
TagResult(body, name) == SetItem(body, "file_name", name)

\* lines 63-74
UploadPayload(name) ==
    [agent |-> "Agent-1",
     params |-> <<[name |-> "file_name", value |-> name],
                  [name |-> "file_content_base64", value |-> <<"b64", <<"bytes", name>>>>]>>]

\* lines 110-120
FetchPayload(analysis_id) ==
    [agent |-> "Agent-3",
     params |-> <<[name |-> "analysis_id", value |-> analysis_id]>>]

\* line 131, the default of .get: f"{file_name} {i+1}" for i in range(matrix.shape[0])
SynthLabels(file_name, nrows) ==
    [i \in 1..nrows |-> file_name \o " " \o IntStr(i)]

\* A variant that cuts every row to the narrowest matrix instead of raising.
VStack_Truncating(ms) ==
    LET narrowest == CHOOSE c \in {NCols(ms[i]) : i \in 1..Len(ms)} :
                         \A i \in 1..Len(ms) : c <= NCols(ms[i])
        all_rows == Concat(ms)
    IN [ok |-> TRUE, value |-> [r \in 1..Len(all_rows) |-> SubSeq(all_rows[r], 1, narrowest)]]

\* A variant that stacks the matrices last to first.
VStack_Reversed(ms) ==
    IF \A i \in 1..Len(ms) : NCols(ms[i]) = NCols(ms[1])
    THEN [ok |-> TRUE, value |-> Concat([i \in 1..Len(ms) |-> ms[Len(ms) + 1 - i]])]
    ELSE [ok |-> FALSE, value |-> <<>>]

\* line 139: np.vstack raises ValueError unless every array has the same column count
VStack(ms) ==
    IF \A i \in 1..Len(ms) : NCols(ms[i]) = NCols(ms[1])
    THEN [ok |-> TRUE, value |-> Concat(ms)]
    ELSE [ok |-> FALSE, value |-> <<>>]

\* lines 144-146
ColLabels(n_criteria) ==
    IF n_criteria > 4
    THEN [i \in 1..n_criteria |-> "Criterion " \o IntStr(i)]
    ELSE <<"Criterion A", "Criterion B", "Criterion C", "Criterion D">>

\* line 141: combined_matrix.mean(axis=1), each mean kept exact as <<sum, count>>
OverallScores(m) == [i \in 1..Len(m) |-> <<SumSeq(m[i]), Len(m[i])>>]

\* lines 149-150: pd.DataFrame raises ValueError when the labels do not fit the shape
DataFrame(m, columns, index) ==
    IF Len(columns) = NCols(m) /\ Len(index) = NRows(m)
    THEN [ok |-> TRUE,
          value |-> [columns |-> columns \o <<"Overall Score">>,
                     index |-> index,
                     data |-> [i \in 1..Len(m) |-> m[i] \o <<OverallScores(m)[i]>>]]]
    ELSE [ok |-> FALSE, value |-> EmptyDict]

\* lines 154-157
Heatmap(m, xticklabels, yticklabels) ==
    [data |-> m, xticklabels |-> xticklabels, yticklabels |-> yticklabels,
     title |-> "Rubric Heatmap for All Transcripts"]

\* lines 162-178
NotifyPayload(figure) ==
    [agent |-> "Agent-4",
     params |-> <<[name |-> "file_name", value |-> "heatmap.png"],
                  [name |-> "file_content_base64", value |-> <<"b64", <<"png", figure>>>>]>>]

\* A variant that never looks at the outcome of the call.
NotifyReport_AlwaysSuccess(resp) == [level |-> "success", what |-> "heatmap_sent"]

\* lines 180-185
NotifyReport(resp) ==
    IF resp = "ok"
    THEN [level |-> "success", what |-> "heatmap_sent"]
    ELSE [level |-> "error", what |-> "heatmap_not_sent"]

----------------------------------------------------------------------------
(* The state between executions *)

HasResults == "all_analysis_results" \in DOMAIN session_state

SessionResults == Get(session_state, "all_analysis_results", <<>>)

FreshLocals ==
    /\ outcome' = ""
    /\ upload_button' = FALSE
    /\ send_button' = FALSE
    /\ upload_transcripts' = <<>>
    /\ doc_idx' = 1
    /\ all_analysis_results' = <<>>
    /\ upload_log' = <<>>
    /\ res_idx' = 1
    /\ all_matrices' = <<>>
    /\ row_labels' = <<>>
    /\ fetch_log' = <<>>
    /\ combined_matrix' = <<>>
    /\ col_labels' = <<>>
    /\ df_scores' = <<>>
    /\ fig' = <<>>
    /\ requests_posted' = <<>>
    /\ notify_log' = <<>>
    /\ messages' = <<>>

Init ==
    /\ session_state = EmptyDict
    /\ send_rendered = FALSE
    /\ pc = "idle"
    /\ outcome = ""
    /\ upload_button = FALSE
    /\ send_button = FALSE
    /\ upload_transcripts = <<>>
    /\ doc_idx = 1
    /\ all_analysis_results = <<>>
    /\ upload_log = <<>>
    /\ res_idx = 1
    /\ all_matrices = <<>>
    /\ row_labels = <<>>
    /\ fetch_log = <<>>
    /\ combined_matrix = <<>>
    /\ col_labels = <<>>
    /\ df_scores = <<>>
    /\ fig = <<>>
    /\ requests_posted = <<>>
    /\ notify_log = <<>>
    /\ messages = <<>>

----------------------------------------------------------------------------
(* One execution of the script *)

\* A re-execution with no button pressed (page load, a change of the file
\* selection): lines 53-54 do nothing and the script goes on to tab 2.
Rerun ==
    /\ pc = "idle"
    /\ FreshLocals
    /\ send_rendered' = FALSE
    /\ pc' = "tab2_guard"
    /\ UNCHANGED session_state

\* The upload button is pressed with a non-empty selection: lines 53-55.
ClickUpload ==
    /\ pc = "idle"
    /\ \E docs \in Selections \ {<<>>} :
        /\ FreshLocals!1 /\ FreshLocals!3 /\ FreshLocals!5 /\ FreshLocals!6
        /\ FreshLocals!7 /\ FreshLocals!8 /\ FreshLocals!9 /\ FreshLocals!10
        /\ FreshLocals!11 /\ FreshLocals!12 /\ FreshLocals!13 /\ FreshLocals!14
        /\ FreshLocals!15 /\ FreshLocals!16 /\ FreshLocals!17 /\ FreshLocals!18
        /\ upload_button' = TRUE
        /\ upload_transcripts' = docs
    /\ send_rendered' = FALSE
    /\ pc' = "upload_loop"
    /\ UNCHANGED session_state

\* The send button, drawn by the previous execution, is pressed.
ClickSend ==
    /\ pc = "idle"
    /\ send_rendered
    /\ FreshLocals!1 /\ FreshLocals!2 /\ FreshLocals!4 /\ FreshLocals!5
    /\ FreshLocals!6 /\ FreshLocals!7 /\ FreshLocals!8 /\ FreshLocals!9
    /\ FreshLocals!10 /\ FreshLocals!11 /\ FreshLocals!12 /\ FreshLocals!13
    /\ FreshLocals!14 /\ FreshLocals!15 /\ FreshLocals!16 /\ FreshLocals!17
    /\ FreshLocals!18
    /\ send_button' = TRUE
    /\ send_rendered' = FALSE
    /\ pc' = "tab2_guard"
    /\ UNCHANGED session_state

\* lines 57-83: one document of the batch
UploadDoc ==
    /\ pc = "upload_loop"
    /\ doc_idx <= Len(upload_transcripts)
    /\ LET name == upload_transcripts[doc_idx] IN
       \E resp \in UploadResponses :
        /\ requests_posted' = Append(requests_posted, UploadPayload(name))
        /\ upload_log' = Append(upload_log, resp)
        /\ IF resp.status = "ok"
           THEN /\ all_analysis_results' =
                       Append(all_analysis_results, TagResult(resp.body, name))
                /\ UNCHANGED messages
           ELSE /\ messages' = Append(messages,
                       [level |-> "error", what |-> "upload_failed", file |-> name])
                /\ UNCHANGED all_analysis_results
    /\ doc_idx' = doc_idx + 1
    /\ UNCHANGED <<session_state, send_rendered, pc, outcome, upload_button, send_button,
                   upload_transcripts, agg_locals, render_locals>>

\* A variant that appends the batch to what the session already holds.
StoredResults_Merged == Get(session_state, "all_analysis_results", <<>>) \o all_analysis_results

\* what line 85 stores
StoredResults == all_analysis_results

\* lines 85-86, after the last document
StoreResults ==
    /\ pc = "upload_loop"
    /\ doc_idx > Len(upload_transcripts)
    /\ session_state' = SetItem(session_state, "all_analysis_results", StoredResults)
    /\ messages' = Append(messages,
           [level |-> "success", what |-> "uploaded", count |-> Len(all_analysis_results)])
    /\ pc' = "tab2_guard"
    /\ UNCHANGED <<send_rendered, outcome, upload_button, send_button, tab1_locals,
                   agg_locals, render_locals, requests_posted>>

\* line 94
NothingUploaded == ~HasResults \/ SessionResults = <<>>

\* lines 94-96: st.info and st.stop()
EmptySessionStop ==
    /\ pc = "tab2_guard"
    /\ NothingUploaded
    /\ messages' = Append(messages, [level |-> "info", what |-> "upload_first"])
    /\ outcome' = "stopped"
    /\ pc' = "done"
    /\ UNCHANGED <<session_state, send_rendered, upload_button, send_button, tab1_locals,
                   agg_locals, render_locals, requests_posted>>

\* lines 99-100
BeginAggregation ==
    /\ pc = "tab2_guard"
    /\ ~NothingUploaded
    /\ all_matrices' = <<>>
    /\ row_labels' = <<>>
    /\ res_idx' = 1
    /\ fetch_log' = <<>>
    /\ pc' = "agg_loop"
    /\ UNCHANGED <<session_state, send_rendered, outcome, upload_button, send_button,
                   tab1_locals, render_locals, requests_posted, messages>>

CurrentResult == SessionResults[res_idx]

\* line 104-105: the id is missing or falsy
NoAnalysisId(result) == Get(result, "analysis_id", "") = ""

\* A variant that uses a matrix the session result carries when it has no id.
SkipNoId_UseCarried ==
    /\ pc = "agg_loop"
    /\ res_idx <= Len(SessionResults)
    /\ NoAnalysisId(CurrentResult)
    /\ IF Size(Get(CurrentResult, "matrix", <<>>)) > 0
       THEN /\ all_matrices' = Append(all_matrices, CurrentResult["matrix"])
            /\ row_labels' = row_labels \o
                   SynthLabels(CurrentResult["file_name"], NRows(CurrentResult["matrix"]))
            /\ UNCHANGED messages
       ELSE /\ messages' = Append(messages,
                   [level |-> "warning", what |-> "no_analysis_id",
                    file |-> CurrentResult["file_name"]])
            /\ UNCHANGED <<all_matrices, row_labels>>
    /\ fetch_log' = Append(fetch_log, [status |-> "not_fetched"])
    /\ res_idx' = res_idx + 1
    /\ UNCHANGED <<session_state, send_rendered, pc, outcome, upload_button, send_button,
                   tab1_locals, render_locals, requests_posted>>

\* lines 104-107: warning and continue
SkipNoId ==
    /\ pc = "agg_loop"
    /\ res_idx <= Len(SessionResults)
    /\ NoAnalysisId(CurrentResult)
    /\ messages' = Append(messages,
           [level |-> "warning", what |-> "no_analysis_id", file |-> CurrentResult["file_name"]])
    /\ fetch_log' = Append(fetch_log, [status |-> "not_fetched"])
    /\ res_idx' = res_idx + 1
    /\ UNCHANGED <<session_state, send_rendered, pc, outcome, upload_button, send_button,
                   tab1_locals, all_matrices, row_labels, render_locals, requests_posted>>

\* lines 109-133: the secondary fetch of one result
FetchAnalysis ==
    /\ pc = "agg_loop"
    /\ res_idx <= Len(SessionResults)
    /\ ~NoAnalysisId(CurrentResult)
    /\ LET file_name == CurrentResult["file_name"]
           fetching == [level |-> "info", what |-> "fetching", file |-> file_name]
           failed == [level |-> "error", what |-> "fetch_failed", file |-> file_name]
       IN
       \E resp \in FetchResponses :
        /\ requests_posted' =
               Append(requests_posted, FetchPayload(CurrentResult["analysis_id"]))
        /\ fetch_log' = Append(fetch_log, resp)
        /\ IF resp.status # "ok"
           THEN \* line 123-125 raised, caught at line 132
                /\ messages' = messages \o <<fetching, failed>>
                /\ UNCHANGED <<all_matrices, row_labels>>
           ELSE LET matrix == Get(resp.body, "matrix", <<>>) IN
                IF Size(matrix) = 0
                THEN \* lines 127-129
                     /\ messages' = messages \o
                            <<fetching,
                              [level |-> "warning", what |-> "no_matrix", file |-> file_name]>>
                     /\ UNCHANGED <<all_matrices, row_labels>>
                ELSE \* line 130, then line 131
                     /\ all_matrices' = Append(all_matrices, matrix)
                     /\ IF "row_labels" \notin DOMAIN resp.body
                        THEN /\ row_labels' =
                                    row_labels \o SynthLabels(file_name, NRows(matrix))
                             /\ messages' = Append(messages, fetching)
                        ELSE IF resp.body["row_labels"].type = "array"
                        THEN /\ row_labels' = row_labels \o resp.body["row_labels"].items
                             /\ messages' = Append(messages, fetching)
                        ELSE \* list.extend raises TypeError, caught at line 132
                             /\ messages' = messages \o <<fetching, failed>>
                             /\ UNCHANGED row_labels
    /\ res_idx' = res_idx + 1
    /\ UNCHANGED <<session_state, send_rendered, pc, outcome, upload_button, send_button,
                   tab1_locals, render_locals>>

\* A variant that tests the label list instead of the matrix list.
NoValidData_Labels == row_labels = <<>>

\* line 135
NoValidData == all_matrices = <<>>

\* lines 135-137: st.error and st.stop()
NoDataStop ==
    /\ pc = "agg_loop"
    /\ res_idx > Len(SessionResults)
    /\ NoValidData
    /\ messages' = Append(messages, [level |-> "error", what |-> "no_valid_data"])
    /\ outcome' = "stopped"
    /\ pc' = "done"
    /\ UNCHANGED <<session_state, send_rendered, upload_button, send_button, tab1_locals,
                   agg_locals, render_locals, requests_posted>>

\* A variant that draws the first stacked row only.
RenderedFigure_FirstRow(m, xticklabels, yticklabels) ==
    Heatmap(SubSeq(m, 1, 1), xticklabels, yticklabels)

\* the figure of lines 154-157
RenderedFigure(m, xticklabels, yticklabels) == Heatmap(m, xticklabels, yticklabels)

\* lines 139-158: stack, label, table, heatmap.  An exception raised here is
\* not caught by the script: the execution ends and the exception is shown.
Render ==
    /\ pc = "agg_loop"
    /\ res_idx > Len(SessionResults)
    /\ ~NoValidData
    /\ LET stacked == VStack(all_matrices) IN
       IF ~stacked.ok
       THEN /\ messages' = Append(messages,
                   [level |-> "exception", what |-> "ValueError", line |-> 139])
            /\ outcome' = "exception"
            /\ pc' = "done"
            /\ UNCHANGED <<combined_matrix, col_labels, df_scores, fig>>
       ELSE LET labels == ColLabels(NCols(stacked.value))
                df == DataFrame(stacked.value, labels, row_labels)
            IN
            /\ combined_matrix' = stacked.value
            /\ col_labels' = labels
            /\ IF ~df.ok
               THEN /\ messages' = Append(messages,
                           [level |-> "exception", what |-> "ValueError", line |-> 149])
                    /\ outcome' = "exception"
                    /\ pc' = "done"
                    /\ UNCHANGED <<df_scores, fig>>
               ELSE /\ df_scores' = <<df.value>>
                    /\ fig' = <<RenderedFigure(stacked.value, labels, row_labels)>>
                    /\ pc' = "button"
                    /\ UNCHANGED <<outcome, messages>>
    /\ UNCHANGED <<session_state, send_rendered, upload_button, send_button, tab1_locals,
                   agg_locals, requests_posted, notify_log>>

\* lines 180-181: the requests.post calls made for one press of the button
NotifyCalls(figure) == <<NotifyPayload(figure)>>

\* lines 161-185: the button is drawn; when pressed, the figure is pushed once
SendButton ==
    /\ pc = "button"
    /\ send_rendered' = TRUE
    /\ IF send_button
       THEN \E resp \in NotifyResponses :
              /\ requests_posted' = requests_posted \o NotifyCalls(fig[1])
              /\ notify_log' = Append(notify_log, resp)
              /\ messages' = Append(messages, NotifyReport(resp))
       ELSE UNCHANGED <<requests_posted, notify_log, messages>>
    /\ outcome' = "completed"
    /\ pc' = "done"
    /\ UNCHANGED <<session_state, upload_button, send_button, tab1_locals, agg_locals,
                   combined_matrix, col_labels, df_scores, fig>>

\* The script has ended; its locals are gone and the page waits for an event.
Finish ==
    /\ pc = "done"
    /\ FreshLocals
    /\ pc' = "idle"
    /\ UNCHANGED <<session_state, send_rendered>>

Next ==
    \/ Rerun
    \/ ClickUpload
    \/ ClickSend
    \/ UploadDoc
    \/ StoreResults
    \/ EmptySessionStop
    \/ BeginAggregation
    \/ SkipNoId
    \/ FetchAnalysis
    \/ NoDataStop
    \/ Render
    \/ SendButton
    \/ Finish

Spec == Init /\ [][Next]_vars

----------------------------------------------------------------------------
(* What the claims speak about *)

\* The positions of the documents of the batch whose upload succeeded, ascending.
RECURSIVE OkIndicesFrom(_, _)
OkIndicesFrom(log, i) ==
    IF i > Len(log) THEN <<>>
    ELSE (IF log[i].status = "ok" THEN <<i>> ELSE <<>>) \o OkIndicesFrom(log, i + 1)

\* The matrices of the results that were not skipped, in session order.
RECURSIVE KeptMatricesFrom(_, _)
KeptMatricesFrom(log, i) ==
    IF i > Len(log) THEN <<>>
    ELSE (IF log[i].status = "ok" /\ Size(Get(log[i].body, "matrix", <<>>)) > 0
          THEN <<log[i].body["matrix"]>> ELSE <<>>) \o KeptMatricesFrom(log, i + 1)

\* The labels the results that were not skipped should bring, in session order.
RECURSIVE KeptLabelsFrom(_, _)
KeptLabelsFrom(log, i) ==
    IF i > Len(log) THEN <<>>
    ELSE (IF log[i].status = "ok" /\ Size(Get(log[i].body, "matrix", <<>>)) > 0
          THEN IF "row_labels" \in DOMAIN log[i].body
                  /\ log[i].body["row_labels"].type = "array"
               THEN log[i].body["row_labels"].items
               ELSE [k \in 1..NRows(log[i].body["matrix"]) |->
                        SessionResults[i]["file_name"] \o " " \o IntStr(k)]
          ELSE <<>>) \o KeptLabelsFrom(log, i + 1)

\* The script is just past lines 85-86 of a batch upload.
BatchStored == pc = "tab2_guard" /\ upload_button

\* The aggregation loop of this execution has run to its end.
AggregationEnded == pc \in {"button", "done"} /\ ~NothingUploaded

CarriesMatrix(result) == Size(Get(result, "matrix", <<>>)) > 0

ColumnMismatch ==
    \E i, j \in 1..Len(all_matrices) : NCols(all_matrices[i]) # NCols(all_matrices[j])

NotifyPosts == {k \in 1..Len(requests_posted) : requests_posted[k].agent = "Agent-4"}

FetchPosts == {k \in 1..Len(requests_posted) : requests_posted[k].agent = "Agent-3"}

Shown(what) == {k \in 1..Len(messages) : messages[k].what = what}

LastMessage == messages[Len(messages)]

NothingRendered == combined_matrix = <<>> /\ df_scores = <<>> /\ fig = <<>>

----------------------------------------------------------------------------
\* C1: at the end of a batch of N documents of which K succeeded, the stored
\* result set has exactly K entries, one per successful document, in
\* selection order; each entry is the backend's answer with file_name set to
\* the document's name (overriding a file_name the backend sent); each failed
\* document gave an error message and no entry.
C1_BatchResults ==
    BatchStored =>
        LET ok == OkIndicesFrom(upload_log, 1)
            stored == SessionResults
        IN /\ Len(upload_log) = Len(upload_transcripts)
           /\ HasResults
           /\ Len(stored) = Len(ok)
           /\ \A j \in 1..Len(ok) :
                LET body == upload_log[ok[j]].body IN
                /\ DOMAIN stored[j] = DOMAIN body \cup {"file_name"}
                /\ stored[j]["file_name"] = upload_transcripts[ok[j]]
                /\ \A k \in DOMAIN body \ {"file_name"} : stored[j][k] = body[k]
           /\ Cardinality(Shown("upload_failed")) = Len(upload_log) - Len(ok)
           /\ LastMessage = [level |-> "success", what |-> "uploaded", count |-> Len(ok)]

\* A batch of two whose first document failed and whose second succeeded with
\* a backend file_name of its own.
C1_Witness ==
    /\ BatchStored
    /\ Len(upload_transcripts) = 2
    /\ upload_log[1].status # "ok"
    /\ upload_log[2].status = "ok"
    /\ "file_name" \in DOMAIN upload_log[2].body
    /\ Len(SessionResults) = 1

\* The successful results of the running batch, from the responses received.
BatchSuccesses ==
    LET ok == OkIndicesFrom(upload_log, 1) IN
    [j \in 1..Len(ok) |->
        SetItem(upload_log[ok[j]].body, "file_name", upload_transcripts[ok[j]])]

\* C2: the session starts without a result set; the only step that changes
\* the session is the end of a batch upload, and it leaves exactly the
\* successful results of that batch, whatever the session held before (the
\* empty list when every document failed).
C2_SessionReplaced ==
    /\ session_state = EmptyDict
    /\ [][ /\ (session_state' # session_state => pc = "upload_loop" /\ pc' = "tab2_guard")
           /\ (pc = "upload_loop" /\ pc' = "tab2_guard" =>
                  session_state' = [all_analysis_results |-> BatchSuccesses]) ]_vars

\* A batch of two that failed entirely has just been stored: the set is empty.
C2_Witness ==
    /\ BatchStored
    /\ Len(upload_transcripts) = 2
    /\ \A i \in 1..2 : upload_log[i].status # "ok"
    /\ HasResults
    /\ SessionResults = <<>>

C4_ColumnMismatchFails ==
    /\ (pc \in {"button", "done"} /\ ColumnMismatch) =>
          /\ pc = "done"
          /\ outcome = "exception"
          /\ LastMessage = [level |-> "exception", what |-> "ValueError", line |-> 139]
          /\ NothingRendered
          /\ NotifyPosts = {}
          /\ ~send_rendered
    /\ combined_matrix # <<>> =>
          /\ ~ColumnMismatch
          /\ combined_matrix = Concat(all_matrices)

\* An execution ended by the mismatch of a 4-column and a 5-column matrix.
C4_Witness ==
    /\ pc = "done"
    /\ ColumnMismatch
    /\ outcome = "exception"

\* C5: with a non-empty session set, the "no data" error is shown if and
\* only if no result contributed a matrix; it is the last thing shown, the
\* execution stops there with nothing rendered and nothing pushed, and it is
\* a message of its own next to the per-item ones.  With at least one
\* contributing matrix the execution is not stopped and goes on to line 139.
C5_NoDataStop ==
    AggregationEnded =>
        /\ Shown("no_valid_data") # {} <=> all_matrices = <<>>
        /\ Shown("no_valid_data") # {} =>
              /\ pc = "done"
              /\ outcome = "stopped"
              /\ Cardinality(Shown("no_valid_data")) = 1
              /\ LastMessage = [level |-> "error", what |-> "no_valid_data"]
              /\ Len(messages) > Len(SessionResults)
              /\ NothingRendered
              /\ NotifyPosts = {}
              /\ ~send_rendered
        /\ all_matrices # <<>> => outcome # "stopped"

\* A stop for want of data after at least one fetch was made.
C5_Witness ==
    /\ AggregationEnded
    /\ Shown("no_valid_data") # {}
    /\ FetchPosts # {}

\* C6: a result without id, with a failed fetch or with an empty fetched
\* matrix contributes nothing and does not end the loop: every result of the
\* session is processed, the contributing matrices are those of the other
\* results in session order, and the aggregated matrix is their vertical
\* concatenation.
C6_SkipAndContinue ==
    /\ all_matrices = KeptMatricesFrom(fetch_log, 1)
    /\ pc = "agg_loop" => Len(fetch_log) = res_idx - 1
    /\ AggregationEnded => Len(fetch_log) = Len(SessionResults)
    /\ \A i \in 1..Len(fetch_log) :
          NoAnalysisId(SessionResults[i]) => fetch_log[i].status = "not_fetched"
    /\ (AggregationEnded /\ all_matrices # <<>> /\ ~ColumnMismatch) =>
          combined_matrix = Concat(KeptMatricesFrom(fetch_log, 1))
    /\ combined_matrix # <<>> =>
          combined_matrix = Concat(KeptMatricesFrom(fetch_log, 1))

\* The first of two results failed to fetch, the second was still fetched
\* and the aggregated matrix was built.
C6_Witness ==
    /\ pc = "button"
    /\ Len(fetch_log) = 2
    /\ fetch_log[1].status \in Failures
    /\ fetch_log[2].status = "ok"
    /\ combined_matrix # <<>>

\* C7: once the matrices are stacked, the row labels are one per row of the
\* aggregated matrix: for each contributing result, in stacking order, its
\* provided row_labels or else the synthesized "{file_name} {row}" labels
\* -- for every backend response, also one whose row_labels has another
\* length or is not a sequence.
C7_RowLabelsAligned ==
    combined_matrix # <<>> =>
        /\ Len(row_labels) = NRows(combined_matrix)
        /\ row_labels = KeptLabelsFrom(fetch_log, 1)

\* C8: an aggregated matrix of n >= 1 columns gets exactly n criterion
\* labels, the first n of "Criterion A".."Criterion D" for n <= 4 and
\* "Criterion 1".."Criterion n" for n > 4, and the table is built with them
\* plus "Overall Score".
C8_ColumnLabels ==
    combined_matrix # <<>> =>
        LET n == NCols(combined_matrix) IN
        /\ Len(col_labels) = n
        /\ n <= 4 => col_labels =
              SubSeq(<<"Criterion A", "Criterion B", "Criterion C", "Criterion D">>, 1, n)
        /\ n > 4 => \A i \in 1..n : col_labels[i] = "Criterion " \o IntStr(i)
        /\ Len(row_labels) = NRows(combined_matrix) =>
              /\ df_scores # <<>>
              /\ df_scores[1].columns = col_labels \o <<"Overall Score">>

\* C9: an execution of the send handler (the pressed button of line 161 is
\* reached) makes exactly one call to the notification agent and shows
\* exactly one of the two outcomes: success if and only if that call
\* succeeded, the error otherwise.  Without the handler there is no call and
\* no outcome.
C9_NotifyOutcome ==
    /\ Cardinality(NotifyPosts) = Len(notify_log)
    /\ Len(notify_log) <= 1
    /\ (pc = "done" /\ send_button /\ outcome = "completed") => Len(notify_log) = 1
    /\ Len(notify_log) = 1 =>
          /\ send_button
          /\ Cardinality(Shown("heatmap_sent")) + Cardinality(Shown("heatmap_not_sent")) = 1
          /\ Shown("heatmap_sent") # {} <=> notify_log[1] = "ok"
          /\ LastMessage.level = (IF notify_log[1] = "ok" THEN "success" ELSE "error")
    /\ Len(notify_log) = 0 =>
          Shown("heatmap_sent") = {} /\ Shown("heatmap_not_sent") = {}

\* A push that failed and was reported as an error.
C9_Witness ==
    /\ pc = "done"
    /\ Len(notify_log) = 1
    /\ notify_log[1] # "ok"
    /\ Shown("heatmap_not_sent") # {}

\* C10: a push is made only by an execution that has run the aggregation
\* over the whole session set, got at least one matrix and rendered table
\* and heatmap; it follows every fetch of that execution and carries the
\* heatmap of that execution's aggregated matrix.  An execution that stops
\* or fails before the button pushes nothing.
C10_PushAfterRender ==
    /\ NotifyPosts # {} =>
          /\ ~NothingUploaded
          /\ Len(fetch_log) = Len(SessionResults)
          /\ all_matrices # <<>>
          /\ df_scores # <<>>
          /\ fig # <<>>
          /\ \A k \in NotifyPosts :
                LET image == requests_posted[k].params[2].value[2][2] IN
                /\ image.data = Concat(all_matrices)
                /\ image.data = combined_matrix
                /\ image.yticklabels = row_labels
                /\ \A j \in FetchPosts : j < k
    /\ (pc = "done" /\ outcome \in {"stopped", "exception"}) => NotifyPosts = {}
    /\ (send_button /\ pc = "done" /\ all_matrices = <<>>) => NotifyPosts = {}

\* The send button was pressed and the heatmap of two stacked matrices pushed.
C10_Witness ==
    /\ pc = "done"
    /\ send_button
    /\ NotifyPosts # {}
    /\ Len(all_matrices) = 2

====
